---- MODULE Spec2Model ----
(***************************************************************************)
(* A model of legion/providers/ollama.py: the OllamaProvider adapter.      *)
(*                                                                         *)
(* The adapter's state is its two connection handles.  Each completion     *)
(* operation is one action, applied to the caller's messages and to the    *)
(* backend's behaviour (a raw response, or an exception raised by the      *)
(* call); it records what was sent and what came back in the variable      *)
(* call.  The asynchronous chat is split at its only real suspension       *)
(* point, the awaited backend call, so that several tasks can be           *)
(* interleaved.                                                            *)
(***************************************************************************)
EXTENDS Integers, Sequences, FiniteSets, TLC

VARIABLES
    phase,          \* "new" before OllamaProvider(...), then "ready" or "failed"
    client,         \* self.client
    asyncClient,    \* self._async_client
    clientsMade,    \* how many AsyncClient objects have been constructed
    call,           \* per task: its latest operation, in flight or finished
    args            \* the caller's messages and what the backend does with a call

vars == <<phase, client, asyncClient, clientsMade, call, args>>

(***************************************************************************)
(* Bounds.                                                                 *)
(***************************************************************************)
MaxMsgs == 2        \* longest caller message sequence
MaxCalls == 2       \* most tool invocations in one raw response
MaxContent == 2     \* longest content text of a raw response, in characters
NumTasks == 2       \* concurrent asyncio tasks sharing the adapter

(***************************************************************************)
(* Python values.  An attribute of an untyped object is missing (hasattr   *)
(* is false), holds None, or holds a value.                                *)
(***************************************************************************)
PyAbsent == [tag |-> "absent"]
PyNone == [tag |-> "none"]
PyStr(s) == [tag |-> "str", v |-> s]
PyInt(n) == [tag |-> "int", v |-> n]
PyObj(r) == [tag |-> "obj", v |-> r]
PyList(s) == [tag |-> "list", v |-> s]

HasAttr(field) == field.tag # "absent"
GetAttr(field, default) == IF HasAttr(field) THEN field ELSE default

\* The value of an expression: a value, or an exception raised on the way.
Ok(v) == [ok |-> TRUE, v |-> v]
Raise(e) == [ok |-> FALSE, exc |-> e]

\* All sequences over S of length at most n.
SeqsUpTo(S, n) == UNION {[1..k -> S] : k \in 0..n}

(***************************************************************************)
(* Canonical messages.  A text is a sequence of pieces.                    *)
(***************************************************************************)
Roles == {"system", "user", "assistant", "tool"}
Contents == {<<"a">>, <<"b">>}
Names == {PyNone, PyStr("n")}
Messages == [role : Roles, content : Contents, name : Names]
Message(r, c) == [role |-> r, content |-> c, name |-> PyNone]

\* msg.model_dump(): every field of the message, under its own key.
ModelDump(msg) == [role |-> msg.role, content |-> msg.content, name |-> msg.name]

\* _format_messages with the name dropped from tool results.
FormatMessage_noname(msg) ==
    [role |-> IF msg.role \in {"system", "tool", "user"} THEN msg.role ELSE "assistant",
     content |-> msg.content]

\* One iteration of the loop of _format_messages.
FormatMessage(msg) ==
    IF msg.role = "system"
    THEN [role |-> "system", content |-> msg.content]
    ELSE IF msg.role = "tool"
         THEN [role |-> "tool", content |-> msg.content, name |-> msg.name]
         ELSE [role |-> IF msg.role = "user" THEN "user" ELSE "assistant",
               content |-> msg.content]

FormatMessages(messages) ==
    [i \in 1..Len(messages) |-> FormatMessage(messages[i])]

(***************************************************************************)
(* The system prompt of the JSON completion.                               *)
(***************************************************************************)
Schemas == {"TestSchema"}
SchemaPrompt(schema) ==
    << "You must respond with valid JSON that matches this schema:\n",
       "json.dumps(" \o schema \o ".model_json_schema(), indent=2)",
       "\n\nRespond ONLY with valid JSON. No other text." >>

\* The loop of _get_json_completion from message i on: the system content so
\* far and the non-system messages collected so far.
RECURSIVE JsonLoop(_, _, _, _, _)
JsonLoop(messages, i, schema_prompt, system_content, formatted_messages) ==
    IF i > Len(messages)
    THEN [system_content |-> system_content, formatted_messages |-> formatted_messages]
    ELSE IF messages[i].role = "system"
         THEN JsonLoop(messages, i + 1, schema_prompt,
                       messages[i].content \o <<"\n\n">> \o schema_prompt,
                       formatted_messages)
         ELSE JsonLoop(messages, i + 1, schema_prompt, system_content,
                       Append(formatted_messages, messages[i]))

\* The message list _get_json_completion hands to _format_messages.
JsonMessages(messages, schema) ==
    LET schema_prompt == SchemaPrompt(schema)
        r == JsonLoop(messages, 1, schema_prompt, schema_prompt, <<>>)
    IN  <<Message("system", r.system_content)>> \o r.formatted_messages

(***************************************************************************)
(* Raw backend responses.  A response text is a sequence of characters:    *)
(* " " is whitespace, "x" a character that is no JSON, "V" a JSON document *)
(* that validates against the schema and "W" a JSON document that does     *)
(* not.                                                                    *)
(***************************************************************************)
Whitespace == {" "}
Chars == {" ", "x", "V", "W"}
ContentShapes ==
    {PyAbsent, PyNone} \cup {PyStr(s) : s \in SeqsUpTo(Chars, MaxContent)}

BackendIds == {"call_1", "id_a"}
IdShapes == {PyAbsent, PyNone} \cup {PyStr(s) : s \in BackendIds}
TypeShapes == {PyAbsent, PyStr("function")}
FunctionNames == {"simple_tool", "other_tool"}
ToolCalls ==
    [id : IdShapes, type : TypeShapes,
     function : [name : FunctionNames, arguments : {"args"}]]
ToolCallShapes ==
    {PyAbsent, PyNone} \cup {PyList(s) : s \in SeqsUpTo(ToolCalls, MaxCalls)}

CounterShapes == {PyAbsent, PyNone, PyInt(7)}
UsageShapes ==
    [prompt_tokens : CounterShapes, completion_tokens : CounterShapes,
     total_tokens : CounterShapes]
NoUsage ==
    [prompt_tokens |-> PyAbsent, completion_tokens |-> PyAbsent,
     total_tokens |-> PyAbsent]
NullUsage ==
    [prompt_tokens |-> PyNone, completion_tokens |-> PyNone,
     total_tokens |-> PyNone]

\* response.message.role, response.model and response.created_at: all there,
\* or all missing.
MetaShapes == {PyAbsent, PyStr("meta")}

Response(message, usage, meta) ==
    [message |-> message,
     prompt_tokens |-> usage.prompt_tokens,
     completion_tokens |-> usage.completion_tokens,
     total_tokens |-> usage.total_tokens,
     model |-> meta, created_at |-> meta]
MessageObj(content, tool_calls, meta) ==
    PyObj([role |-> meta, content |-> content, tool_calls |-> tool_calls])

\* Responses that vary the message and its content.
ContentMessages(meta) ==
    {PyAbsent, PyNone} \cup
    {MessageObj(c, t, meta) :
        c \in ContentShapes, t \in {PyAbsent, PyNone, PyList(<<>>)}}
ContentResponses ==
    UNION {{Response(m, u, meta) :
                m \in ContentMessages(meta), u \in {NoUsage, NullUsage}} :
              meta \in MetaShapes}
\* Responses that vary the usage counters.
UsageResponses ==
    {Response(MessageObj(PyStr(<<"V">>), PyAbsent, meta), u, meta) :
        u \in UsageShapes, meta \in MetaShapes}
\* Responses that vary the tool invocations.
ToolResponses ==
    {Response(MessageObj(c, t, meta), NoUsage, meta) :
        c \in {PyAbsent, PyStr(<<"V">>)}, t \in ToolCallShapes,
        meta \in MetaShapes}
Responses == ContentResponses \cup UsageResponses \cup ToolResponses

(***************************************************************************)
(* Response extraction.                                                    *)
(***************************************************************************)
\* obj.name for an object that may be None: None has none of the attributes.
Attr(obj, name) == IF obj.tag = "obj" THEN obj.v[name] ELSE PyAbsent

\* str.strip(): leading and trailing whitespace removed.
RECURSIVE LStrip(_)
LStrip(s) == IF s # <<>> /\ Head(s) \in Whitespace THEN LStrip(Tail(s)) ELSE s
RECURSIVE RStrip(_)
RStrip(s) ==
    IF s # <<>> /\ s[Len(s)] \in Whitespace
    THEN RStrip(SubSeq(s, 1, Len(s) - 1)) ELSE s
Strip(s) == RStrip(LStrip(s))

\* _extract_content
ExtractContent(response) ==
    IF ~HasAttr(response.message)
    THEN Ok(<<>>)
    ELSE LET content == Attr(response.message, "content")
         IN  IF HasAttr(content)
             THEN IF content.tag = "str"
                  THEN Ok(Strip(content.v))
                  ELSE Raise("AttributeError")      \* None.strip()
             ELSE Ok(<<>>)

\* TokenUsage(...): a record of three integers.
TokenUsage(prompt_tokens, completion_tokens, total_tokens) ==
    IF \A c \in {prompt_tokens, completion_tokens, total_tokens} : c.tag = "int"
    THEN Ok([prompt_tokens |-> prompt_tokens.v,
             completion_tokens |-> completion_tokens.v,
             total_tokens |-> total_tokens.v])
    ELSE Raise("ValidationError")

\* _extract_usage
ExtractUsage(response) ==
    TokenUsage(GetAttr(response.prompt_tokens, PyInt(0)),
               GetAttr(response.completion_tokens, PyInt(0)),
               GetAttr(response.total_tokens, PyInt(0)))

\* json.dumps of the arguments of a tool call.
JsonDumps(x) == "json.dumps(" \o x \o ")"

\* The id of the tool call met when n calls have been extracted.
CallId(tool_call, n) == GetAttr(tool_call.id, PyStr("call_" \o ToString(n)))

\* The loop of _extract_tool_calls from invocation i on.
RECURSIVE ToolCallLoop(_, _, _)
ToolCallLoop(invocations, i, tool_calls) ==
    IF i > Len(invocations)
    THEN tool_calls
    ELSE ToolCallLoop(invocations, i + 1,
             Append(tool_calls,
                    [id |-> CallId(invocations[i], Len(tool_calls)),
                     type |-> "function",
                     function |->
                         [name |-> invocations[i].function.name,
                          arguments |-> JsonDumps(invocations[i].function.arguments)]]))

\* _extract_tool_calls
ExtractToolCalls(response) ==
    IF ~HasAttr(response.message) \/ ~HasAttr(Attr(response.message, "tool_calls"))
    THEN Ok(PyNone)
    ELSE LET invocations == Attr(response.message, "tool_calls")
         IN  IF invocations.tag # "list"
             THEN Raise("TypeError")                \* for ... in None
             ELSE LET tool_calls == ToolCallLoop(invocations.v, 1, <<>>)
                  IN  Ok(IF tool_calls # <<>> THEN PyList(tool_calls) ELSE PyNone)

\* _response_to_dict: reads every attribute it names.
ResponseToDict(response) ==
    LET message == response.message
        invocations == Attr(message, "tool_calls")
    IN  IF /\ message.tag = "obj"
           /\ HasAttr(message.v.role)
           /\ HasAttr(message.v.content)
           /\ HasAttr(invocations)
           /\ (invocations.tag = "list" =>
                   \A i \in 1..Len(invocations.v) :
                       /\ HasAttr(invocations.v[i].id)
                       /\ HasAttr(invocations.v[i].type))
           /\ HasAttr(response.model)
           /\ HasAttr(response.created_at)
        THEN Ok("dict")
        ELSE Raise("AttributeError")

\* json.loads: one JSON document, whitespace around it allowed.
JsonLoads(content) ==
    IF Strip(content) \in {<<"V">>, <<"W">>}
    THEN Ok(Strip(content)[1])
    ELSE Raise("JSONDecodeError")

\* schema.model_validate
ModelValidate(schema, data) ==
    IF data = "V" THEN Ok(data) ELSE Raise("ValidationError")

(***************************************************************************)
(* Outcomes and exception handling.                                        *)
(***************************************************************************)
ModelResponse(content, raw_response, usage, tool_calls) ==
    [kind |-> "ModelResponse", content |-> content, raw_response |-> raw_response,
     usage |-> usage, tool_calls |-> tool_calls]
ProviderError(message, cause) ==
    [kind |-> "ProviderError", message |-> message, cause |-> cause]
Escaped(exc) == [kind |-> "raise", exc |-> exc]

BackendErrors == {"ResponseError", "ConnectionError"}
ExceptionClasses ==
    BackendErrors \cup
    {"AttributeError", "TypeError", "ValidationError", "JSONDecodeError",
     "ImportError", "ValueError", "ProviderError"}

\* A handler that catches the backend's own error type only.
IsException_narrow(exc) == exc = "ResponseError"

\* except Exception
IsException(exc) == exc \in ExceptionClasses

\* try: body  except Exception as e: raise ProviderError(message)
Except(body, message) ==
    IF body.ok
    THEN body.v
    ELSE IF IsException(body.exc)
         THEN ProviderError(message, body.exc)
         ELSE Escaped(body.exc)

\* The same, as the value of an enclosing expression.
Reraise(body) ==
    IF body.ok \/ ~IsException(body.exc) THEN body ELSE Raise("ProviderError")

\* What the backend does with one call: a raw response, or an exception.
Backends ==
    {[tag |-> "reply", v |-> r] : r \in Responses} \cup
    {[tag |-> "raise", exc |-> e] : e \in BackendErrors}
ClientChat(backend) ==
    IF backend.tag = "raise" THEN Raise(backend.exc) ELSE Ok(backend.v)

(***************************************************************************)
(* The completion operations, as functions of what the backend does.       *)
(***************************************************************************)
\* The try block of _get_chat_completion.
ChatBody(backend) ==
    LET response == ClientChat(backend)
    IN  IF ~response.ok THEN response ELSE
        LET content == ExtractContent(response.v)
        IN  IF ~content.ok THEN content ELSE
            LET usage == ExtractUsage(response.v)
            IN  IF ~usage.ok THEN usage ELSE
                Ok(ModelResponse(content.v, "response", usage.v, PyNone))

\* The try block of _get_tool_completion.
ToolBody(backend) ==
    LET response == ClientChat(backend)
    IN  IF ~response.ok THEN response ELSE
        LET tool_calls == ExtractToolCalls(response.v)
        IN  IF ~tool_calls.ok THEN tool_calls ELSE
            LET content == ExtractContent(response.v)
            IN  IF ~content.ok THEN content ELSE
                LET usage == ExtractUsage(response.v)
                IN  IF ~usage.ok THEN usage ELSE
                    Ok(ModelResponse(content.v, "response", usage.v, tool_calls.v))

\* The inner try block without the validation against the schema.
JsonValidated_parsedonly(schema, response) ==
    LET content == ExtractContent(response)
    IN  IF ~content.ok THEN content ELSE
        LET data == JsonLoads(content.v)
        IN  IF ~data.ok THEN data ELSE content

\* The inner try block of _get_json_completion: the validated content.
JsonValidated(schema, response) ==
    LET content == ExtractContent(response)
    IN  IF ~content.ok THEN content ELSE
        LET data == JsonLoads(content.v)
        IN  IF ~data.ok THEN data ELSE
            LET valid == ModelValidate(schema, data.v)
            IN  IF ~valid.ok THEN valid ELSE content

\* Whether _get_json_completion reaches the backend call.
JsonCalls(schema) == IF schema = PyNone THEN 0 ELSE 1

\* The outer try block of _get_json_completion.
JsonBody(schema, backend) ==
    IF JsonCalls(schema) = 0
    THEN Raise("AttributeError")                    \* None.model_json_schema()
    ELSE LET response == ClientChat(backend)
         IN  IF ~response.ok THEN response ELSE
             LET content == Reraise(JsonValidated(schema.v, response.v))
             IN  IF ~content.ok THEN content ELSE
                 LET usage == ExtractUsage(response.v)
                 IN  IF ~usage.ok THEN usage ELSE
                     Ok(ModelResponse(content.v, "response", usage.v, PyNone))

\* The try block of _aget_chat_completion from the awaited call on.
AChatBody(backend) ==
    LET response == ClientChat(backend)
    IN  IF ~response.ok THEN response ELSE
        LET content == ExtractContent(response.v)
        IN  IF ~content.ok THEN content ELSE
            LET raw == ResponseToDict(response.v)
            IN  IF ~raw.ok THEN raw ELSE
                LET usage == ExtractUsage(response.v)
                IN  IF ~usage.ok THEN usage ELSE
                    Ok(ModelResponse(content.v, raw.v, usage.v, PyNone))

GetChatCompletionResult(backend) ==
    Except(ChatBody(backend), "Ollama completion failed")
GetToolCompletionResult(backend) ==
    Except(ToolBody(backend), "Ollama tool completion failed")
GetJsonCompletionResult(schema, backend) ==
    Except(JsonBody(schema, backend), "Ollama JSON completion failed")
AGetChatCompletionResult(backend) ==
    Except(AChatBody(backend), "Ollama async completion failed")

\* The messages each operation hands to the backend.
ChatWire(messages) == FormatMessages(messages)
JsonWire(messages, schema) == FormatMessages(JsonMessages(messages, schema.v))
AChatWire(messages) == [i \in 1..Len(messages) |-> ModelDump(messages[i])]

(***************************************************************************)
(* The adapter and its callers.                                            *)
(***************************************************************************)
Tasks == 1..NumTasks
Unset == "<unset>"              \* the attribute does not exist yet
NoClient == "<None>"            \* self._async_client = None
SyncHandle == "Client"
AsyncHandle(n) == "AsyncClient#" \o ToString(n)

\* What constructing a connection handle can do: succeed, fail at the import,
\* fail in the constructor.
CtorOutcomes == {"ok", "ImportError", "ValueError"}

NoCall ==
    [op |-> "none", messages |-> <<>>, schema |-> PyNone, sent |-> PyNone,
     backend |-> PyNone, calls |-> 0, handle |-> Unset, result |-> [kind |-> "none"]]
Awaiting == [kind |-> "awaiting"]
InFlight(t) == call[t].result.kind = "awaiting"

\* _setup_client: the import and the constructor are both inside the try.
SetupClient(ctor) ==
    Reraise(IF ctor = "ok" THEN Ok(SyncHandle) ELSE Raise(ctor))

\* LLMInterface.__init__, the base initializer: runs self._setup_client().
BaseInit(ctor) == SetupClient(ctor)

\* _asetup_client, making the n-th AsyncClient: the import is outside the try.
ASetupClient(ctor, n) ==
    IF ctor = "ImportError"
    THEN Raise(ctor)
    ELSE Reraise(IF ctor = "ok" THEN Ok(AsyncHandle(n)) ELSE Raise(ctor))

\* _ensure_async_client without its guard.
NeedsSetup_always(current) == TRUE

\* The guard of _ensure_async_client.
NeedsSetup(current) == current = NoClient

\* await self._ensure_async_client(): the handle afterwards.  Nothing in
\* _asetup_client suspends, so the check and the assignment are one step of
\* the event loop.
EnsureAsyncClient(current, ctor, made) ==
    IF NeedsSetup(current) THEN ASetupClient(ctor, made + 1) ELSE Ok(current)

\* OllamaProvider(config): the base initializer runs _setup_client, then
\* __init__ sets _async_client to None.
Construct(ctor) ==
    /\ phase = "new"
    /\ LET made == BaseInit(ctor)
       IN  IF made.ok
           THEN /\ client' = made.v
                /\ asyncClient' = NoClient
                /\ phase' = "ready"
           ELSE /\ phase' = "failed"
                /\ UNCHANGED <<client, asyncClient>>
    /\ UNCHANGED <<clientsMade, call, args>>

\* A sync chat that also replaces the connection handle.
GetChatCompletion_reconnect(t, messages, backend) ==
    /\ phase = "ready"
    /\ ~InFlight(t)
    /\ call' = [call EXCEPT ![t] =
                   [op |-> "chat", messages |-> messages, schema |-> PyNone,
                    sent |-> PyList(ChatWire(messages)), backend |-> backend,
                    calls |-> 1, handle |-> client,
                    result |-> GetChatCompletionResult(backend)]]
    /\ client' = "Client#2"
    /\ UNCHANGED <<phase, asyncClient, clientsMade, args>>

\* _get_chat_completion
GetChatCompletion(t, messages, backend) ==
    /\ phase = "ready"
    /\ ~InFlight(t)
    /\ call' = [call EXCEPT ![t] =
                   [op |-> "chat", messages |-> messages, schema |-> PyNone,
                    sent |-> PyList(ChatWire(messages)), backend |-> backend,
                    calls |-> 1, handle |-> client,
                    result |-> GetChatCompletionResult(backend)]]
    /\ UNCHANGED <<phase, client, asyncClient, clientsMade, args>>

\* _get_tool_completion
GetToolCompletion(t, messages, backend) ==
    /\ phase = "ready"
    /\ ~InFlight(t)
    /\ call' = [call EXCEPT ![t] =
                   [op |-> "tool", messages |-> messages, schema |-> PyNone,
                    sent |-> PyList(ChatWire(messages)), backend |-> backend,
                    calls |-> 1, handle |-> client,
                    result |-> GetToolCompletionResult(backend)]]
    /\ UNCHANGED <<phase, client, asyncClient, clientsMade, args>>

\* _get_json_completion
GetJsonCompletion(t, messages, schema, backend) ==
    /\ phase = "ready"
    /\ ~InFlight(t)
    /\ call' = [call EXCEPT ![t] =
                   [op |-> "json", messages |-> messages, schema |-> schema,
                    sent |-> IF JsonCalls(schema) = 0 THEN PyNone
                             ELSE PyList(JsonWire(messages, schema)),
                    backend |-> IF JsonCalls(schema) = 0 THEN PyNone ELSE backend,
                    calls |-> JsonCalls(schema), handle |-> client,
                    result |-> GetJsonCompletionResult(schema, backend)]]
    /\ UNCHANGED <<phase, client, asyncClient, clientsMade, args>>

\* _aget_chat_completion up to its suspension in the awaited backend call, or
\* to its failure before it.
AGetChatCompletionStart(t, messages, ctor) ==
    /\ phase = "ready"
    /\ ~InFlight(t)
    /\ LET ensured == EnsureAsyncClient(asyncClient, ctor, clientsMade)
       IN  IF ensured.ok
           THEN /\ asyncClient' = ensured.v
                /\ clientsMade' = IF ensured.v = asyncClient THEN clientsMade
                                  ELSE clientsMade + 1
                /\ call' = [call EXCEPT ![t] =
                               [op |-> "achat", messages |-> messages,
                                schema |-> PyNone,
                                sent |-> PyList(AChatWire(messages)),
                                backend |-> PyNone, calls |-> 1,
                                handle |-> ensured.v, result |-> Awaiting]]
           ELSE /\ call' = [call EXCEPT ![t] =
                               [op |-> "achat", messages |-> messages,
                                schema |-> PyNone, sent |-> PyNone,
                                backend |-> PyNone, calls |-> 0,
                                handle |-> asyncClient,
                                result |-> Except(ensured,
                                              "Ollama async completion failed")]]
                /\ UNCHANGED <<asyncClient, clientsMade>>
    /\ UNCHANGED <<phase, client, args>>

\* _aget_chat_completion from the return of the awaited backend call.
AGetChatCompletionFinish(t, backend) ==
    /\ InFlight(t)
    /\ call' = [call EXCEPT ![t].backend = backend,
                            ![t].result = AGetChatCompletionResult(backend)]
    /\ UNCHANGED <<phase, client, asyncClient, clientsMade, args>>

(***************************************************************************)
(* Inputs.  Every message sequence meets a plain backend reply, and a      *)
(* plain message sequence meets every backend behaviour.                   *)
(***************************************************************************)
MessageSeqs == SeqsUpTo(Messages, MaxMsgs)
PlainMessages == <<Message("user", <<"a">>)>>
\* The reply of the ollama client to a plain chat: a message with a role, a
\* content and no tool invocations, and none of the counters _extract_usage
\* looks for.
PlainBackend ==
    [tag |-> "reply",
     v |-> Response(MessageObj(PyStr(<<"V">>), PyNone, PyStr("meta")),
                    NoUsage, PyStr("meta"))]
Args ==
    {[messages |-> m, backend |-> PlainBackend] : m \in MessageSeqs} \cup
    {[messages |-> PlainMessages, backend |-> b] : b \in Backends}
SchemaArgs == {PyNone} \cup {PyStr(s) : s \in Schemas}
\* The constructor outcomes worth drawing: all, while a handle is to be made.
CtorsFor(current) == IF current = NoClient THEN CtorOutcomes ELSE {"ok"}

InitAdapter ==
    /\ phase = "new"
    /\ client = Unset
    /\ asyncClient = Unset
    /\ clientsMade = 0
    /\ call = [t \in Tasks |-> NoCall]

\* One caller, one operation at a time, on the arguments of this run.
Init ==
    /\ InitAdapter
    /\ args \in Args

Next ==
    \/ \E ctor \in CtorOutcomes : Construct(ctor)
    \/ GetChatCompletion(1, args.messages, args.backend)
    \/ GetToolCompletion(1, args.messages, args.backend)
    \/ \E schema \in SchemaArgs :
           GetJsonCompletion(1, args.messages, schema, args.backend)
    \/ \E ctor \in CtorsFor(asyncClient) :
           AGetChatCompletionStart(1, args.messages, ctor)
    \/ AGetChatCompletionFinish(1, args.backend)

Spec == Init /\ [][Next]_vars

\* Several asyncio tasks on one event loop sharing the adapter.
ConcBackends == {PlainBackend, [tag |-> "raise", exc |-> "ConnectionError"]}
ConcMessages == {PlainMessages, <<>>}
InitConc ==
    /\ InitAdapter
    /\ args \in [messages : ConcMessages, backend : {PlainBackend}]

NextConc ==
    \/ \E ctor \in CtorOutcomes : Construct(ctor)
    \/ \E t \in Tasks : \E backend \in ConcBackends :
           GetChatCompletion(t, args.messages, backend)
    \/ \E t \in Tasks : \E ctor \in CtorsFor(asyncClient) :
           AGetChatCompletionStart(t, args.messages, ctor)
    \/ \E t \in Tasks : \E backend \in ConcBackends :
           AGetChatCompletionFinish(t, backend)

SpecConc == InitConc /\ [][NextConc]_vars

(***************************************************************************)
(* Vocabulary of the properties.                                           *)
(***************************************************************************)
SyncOps == {"chat", "tool", "json"}
Finished(t) == call[t].op # "none" /\ ~InFlight(t)
Replied(c) == c.backend.tag = "reply"
BackendRaised(c) == c.backend.tag = "raise"
HandleCreationRaised(c) == c.op = "achat" /\ c.calls = 0

\* A field that is missing or holds None.
Missing(field) == field.tag \in {"absent", "none"}
\* The tool invocations a raw response reports.
Invocations(response) ==
    LET reported == Attr(response.message, "tool_calls")
    IN  IF reported.tag = "list" THEN reported.v ELSE <<>>

(***************************************************************************)
(* C1.  Whenever the backend call of a sync plain chat, a sync tool        *)
(* completion, a sync JSON completion or an async plain chat raises, or    *)
(* the creation of the async handle raises, the operation ends in a        *)
(* ProviderError: no ModelResponse, no exception of another type.          *)
(***************************************************************************)
C1_BackendFailureIsProviderError ==
    \A t \in Tasks :
        (Finished(t) /\ (BackendRaised(call[t]) \/ HandleCreationRaised(call[t])))
            => call[t].result.kind = "ProviderError"

\* An async chat whose awaited backend call raised, after the handle was made.
C1_Witness ==
    \E t \in Tasks :
        /\ Finished(t)
        /\ call[t].op = "achat"
        /\ BackendRaised(call[t])
        /\ call[t].backend.exc = "ConnectionError"
        /\ call[t].result.kind = "ProviderError"
        /\ asyncClient = call[t].handle

(***************************************************************************)
(* C2.  A JSON completion with a schema makes exactly one backend call;    *)
(* when the reply's content does not parse as JSON or does not validate    *)
(* against the schema it ends in a ProviderError, and it returns a         *)
(* ModelResponse only when the content parses and validates.               *)
(***************************************************************************)
ParsesAndValidates(schema, response) ==
    LET content == ExtractContent(response)
    IN  /\ content.ok
        /\ JsonLoads(content.v).ok
        /\ ModelValidate(schema, JsonLoads(content.v).v).ok

C2_InvalidJsonIsProviderError ==
    \A t \in Tasks :
        (Finished(t) /\ call[t].op = "json" /\ call[t].schema # PyNone)
            => /\ call[t].calls = 1
               /\ call[t].result.kind \in {"ModelResponse", "ProviderError"}
               /\ Replied(call[t]) =>
                      LET valid == ParsesAndValidates(call[t].schema.v,
                                                      call[t].backend.v)
                      IN  /\ ~valid => call[t].result.kind = "ProviderError"
                          /\ call[t].result.kind = "ModelResponse" => valid

\* A reply whose content is JSON but not of the schema.
C2_Witness ==
    \E t \in Tasks :
        /\ Finished(t) /\ call[t].op = "json" /\ call[t].schema # PyNone
        /\ Replied(call[t])
        /\ ExtractContent(call[t].backend.v) = Ok(<<"W">>)
        /\ call[t].result.kind = "ProviderError"
        /\ call[t].calls = 1

(***************************************************************************)
(* C3.  A tool completion whose reply reports no tool invocation (the list *)
(* is missing, null or empty) returns a ModelResponse with tool_calls      *)
(* null; one whose reply reports n >= 1 invocations returns a list of      *)
(* exactly n entries in the backend's order, each of type "function" with  *)
(* the backend's callee name.  Stated for the replies whose content and    *)
(* usage counters extract.                                                 *)
(***************************************************************************)
C3_ToolCallsNullOrReportedList ==
    \A t \in Tasks :
        (/\ Finished(t) /\ call[t].op = "tool" /\ Replied(call[t])
         /\ ExtractContent(call[t].backend.v).ok
         /\ ExtractUsage(call[t].backend.v).ok)
            => LET reported == Invocations(call[t].backend.v)
                   result == call[t].result
               IN  /\ result.kind = "ModelResponse"
                   /\ IF reported = <<>>
                      THEN result.tool_calls = PyNone
                      ELSE /\ result.tool_calls.tag = "list"
                           /\ Len(result.tool_calls.v) = Len(reported)
                           /\ \A i \in 1..Len(reported) :
                                  /\ result.tool_calls.v[i].type = "function"
                                  /\ result.tool_calls.v[i].function.name =
                                         reported[i].function.name

(***************************************************************************)
(* C4.  In the tool_calls extracted from one response whose backend ids    *)
(* are pairwise distinct, every call without a backend id gets an id that  *)
(* is a string and differs from the id of every other call of the          *)
(* response.                                                               *)
(***************************************************************************)
BackendIdsDistinct(reported) ==
    \A i, j \in 1..Len(reported) :
        (i # j /\ reported[i].id.tag = "str" /\ reported[j].id.tag = "str")
            => reported[i].id # reported[j].id

C4_SynthesizedIdsUnique ==
    \A t \in Tasks :
        (/\ Finished(t) /\ call[t].op = "tool" /\ Replied(call[t])
         /\ call[t].result.kind = "ModelResponse"
         /\ call[t].result.tool_calls.tag = "list"
         /\ BackendIdsDistinct(Invocations(call[t].backend.v)))
            => LET reported == Invocations(call[t].backend.v)
                   extracted == call[t].result.tool_calls.v
               IN  \A i \in 1..Len(reported) :
                       ~HasAttr(reported[i].id)
                           => /\ extracted[i].id.tag = "str"
                              /\ \A j \in 1..Len(extracted) :
                                     j # i => extracted[j].id # extracted[i].id

(***************************************************************************)
(* C5.  The sequence a JSON completion sends holds exactly one system      *)
(* message, at position 0; its content is the caller's system content      *)
(* followed by the schema directive (the directive alone without a caller  *)
(* system message), none of the caller's system content dropped; the rest  *)
(* is the caller's non-system messages in their order.                     *)
(***************************************************************************)
IsSystem(msg) == msg.role = "system"
NotSystem(msg) == msg.role # "system"
\* Text part occurs in text as a contiguous run.
Occurs(part, text) ==
    \E k \in 0..(Len(text) - Len(part)) : SubSeq(text, k + 1, k + Len(part)) = part
EndsWith(text, suffix) ==
    /\ Len(text) >= Len(suffix)
    /\ SubSeq(text, Len(text) - Len(suffix) + 1, Len(text)) = suffix

C5_OneMergedSystemMessageFirst ==
    \A t \in Tasks :
        (Finished(t) /\ call[t].op = "json" /\ call[t].calls = 1)
            => LET sent == call[t].sent.v
                   messages == call[t].messages
                   directive == SchemaPrompt(call[t].schema.v)
               IN  /\ Len(sent) >= 1
                   /\ sent[1].role = "system"
                   /\ \A i \in 2..Len(sent) : sent[i].role # "system"
                   /\ EndsWith(sent[1].content, directive)
                   /\ (\A i \in 1..Len(messages) : NotSystem(messages[i]))
                          => sent[1].content = directive
                   /\ \A i \in 1..Len(messages) :
                          IsSystem(messages[i])
                              => Occurs(messages[i].content,
                                        SubSeq(sent[1].content, 1,
                                               Len(sent[1].content) - Len(directive)))
                   /\ Tail(sent) = FormatMessages(SelectSeq(messages, NotSystem))

(***************************************************************************)
(* C6.  _format_messages keeps the length and the order; every wire entry  *)
(* carries the content and a wire role the original role is recovered      *)
(* from, and a tool-role message keeps its name.  As claimed: mapping the  *)
(* wire sequence back recovers role, content and name of every message.    *)
(* As amended: role and content of every message, and the name of every    *)
(* tool-role message.                                                      *)
(***************************************************************************)
\* The role a wire role stands for.
WireToRole(role) ==
    CASE role = "system" -> "system"
      [] role = "user" -> "user"
      [] role = "assistant" -> "assistant"
      [] role = "tool" -> "tool"
      [] OTHER -> "unknown"
\* The message a wire entry stands for.
InverseMap(wire) ==
    [role |-> WireToRole(wire.role), content |-> wire.content,
     name |-> IF "name" \in DOMAIN wire THEN wire.name ELSE PyNone]
Translated(t) ==
    Finished(t) /\ call[t].op \in {"chat", "tool"}

\* C6 as claimed: the wire sequence maps back to the role, content and name
\* of every message.
C6_RoundTripRecoversEveryField ==
    \A t \in Tasks :
        Translated(t)
            => /\ Len(call[t].sent.v) = Len(call[t].messages)
               /\ \A i \in 1..Len(call[t].messages) :
                      InverseMap(call[t].sent.v[i]) = call[t].messages[i]

\* C6 as amended: the wire sequence maps back to the role and content of
\* every message and to the name of every tool-role message.
C6_RoundTripRecoversRoleContentToolName ==
    \A t \in Tasks :
        Translated(t)
            => /\ Len(call[t].sent.v) = Len(call[t].messages)
               /\ \A i \in 1..Len(call[t].messages) :
                      LET back == InverseMap(call[t].sent.v[i])
                          msg == call[t].messages[i]
                      IN  /\ back.role = msg.role
                          /\ back.content = msg.content
                          /\ msg.role = "tool"
                                 => /\ "name" \in DOMAIN call[t].sent.v[i]
                                    /\ back.name = msg.name

\* A named tool result after a message of another role and content.
C6_Witness ==
    \E t \in Tasks :
        /\ Translated(t)
        /\ Len(call[t].messages) = 2
        /\ call[t].messages[1].role = "assistant"
        /\ call[t].messages[2].role = "tool"
        /\ call[t].messages[2].name = PyStr("n")
        /\ call[t].messages[1].content # call[t].messages[2].content
        /\ call[t].sent.v[2] =
               [role |-> "tool", content |-> call[t].messages[2].content,
                name |-> PyStr("n")]

(***************************************************************************)
(* C7.  When the backend call of a sync plain chat, a sync tool completion *)
(* or an async plain chat returns, the operation returns a ModelResponse   *)
(* whatever is missing or null in the raw response: missing content gives  *)
(* content "", missing tool invocations give tool_calls null, a missing    *)
(* usage counter gives 0.  Stated for the responses that carry their       *)
(* model, creation time and message role.                                  *)
(***************************************************************************)
HasMeta(response) ==
    /\ HasAttr(response.model)
    /\ HasAttr(response.created_at)
    /\ response.message.tag = "obj" => HasAttr(response.message.v.role)

C7_ExtractionNeverFails ==
    \A t \in Tasks :
        (/\ Finished(t) /\ call[t].op \in {"chat", "tool", "achat"}
         /\ Replied(call[t]) /\ HasMeta(call[t].backend.v))
            => LET response == call[t].backend.v
                   result == call[t].result
               IN  /\ result.kind = "ModelResponse"
                   /\ Missing(response.message) \/ Missing(Attr(response.message, "content"))
                          => result.content = <<>>
                   /\ Invocations(response) = <<>> => result.tool_calls = PyNone
                   /\ Missing(response.prompt_tokens) => result.usage.prompt_tokens = 0
                   /\ Missing(response.completion_tokens)
                          => result.usage.completion_tokens = 0
                   /\ Missing(response.total_tokens) => result.usage.total_tokens = 0

(***************************************************************************)
(* C8.  Over any number of async calls by any number of tasks, in any      *)
(* interleaving, the async handle is constructed at most once: every call  *)
(* that reaches the backend uses the handle the first one made, which is   *)
(* still the adapter's.                                                    *)
(***************************************************************************)
C8_AsyncHandleMadeOnce ==
    /\ clientsMade <= 1
    /\ asyncClient \in {Unset, NoClient, AsyncHandle(1)}
    /\ asyncClient = AsyncHandle(1) <=> clientsMade = 1
    /\ \A t \in Tasks :
           (call[t].op = "achat" /\ call[t].calls = 1)
               => /\ call[t].handle = AsyncHandle(1)
                  /\ asyncClient = AsyncHandle(1)

\* Two tasks suspended in the backend call at once, on the same handle.
C8_Witness ==
    \E t, u \in Tasks :
        /\ t # u
        /\ InFlight(t) /\ InFlight(u)
        /\ call[t].handle = call[u].handle
        /\ clientsMade = 1

(***************************************************************************)
(* C9.  An async plain chat sends the backend the wire messages a sync     *)
(* plain chat sends for the same messages, and for the same backend        *)
(* behaviour ends as the sync plain chat does: a ModelResponse of the same *)
(* content, usage and tool_calls, or a ProviderError.                      *)
(***************************************************************************)
SameOutcome(a, b) ==
    /\ a.kind = b.kind
    /\ a.kind = "ModelResponse"
           => /\ a.content = b.content
              /\ a.usage = b.usage
              /\ a.tool_calls = b.tool_calls

C9_AsyncMirrorsSync ==
    \A t \in Tasks :
        (Finished(t) /\ call[t].op = "achat" /\ call[t].calls = 1)
            => /\ call[t].sent.v = ChatWire(call[t].messages)
               /\ SameOutcome(call[t].result,
                              GetChatCompletionResult(call[t].backend))

(***************************************************************************)
(* C10.  Construction leaves a sync handle and a null async handle, and a  *)
(* sync completion, succeeding or failing, changes neither: the sync       *)
(* handle stays the one made at construction and the async handle stays    *)
(* as it was.                                                              *)
(***************************************************************************)
SyncStep(t) == call'[t] # call[t] /\ call'[t].op \in SyncOps

====
